---- MODULE Spec2Model ----
(***************************************************************************)
(* A model of fe::Arena (include/fe/arena.h) and fe::Sym / fe::SymPool     *)
(* (include/fe/sym.h).                                                     *)
(*                                                                         *)
(* Memory is modelled byte by byte: a page is a sequence of cells, a       *)
(* pointer is a page identity and a 0-based offset into the page, a String *)
(* record is the bytes SymPool::sym writes (the size_t size field, the     *)
(* characters, one NUL).                                                   *)
(***************************************************************************)
EXTENDS Integers, Sequences, FiniteSets, TLC

(***************************************************************************)
(* State.  The module holds several models, each with its own variables; a *)
(* model leaves the variables of the others as they are.                   *)
(***************************************************************************)

\* The pool model: one SymPool.
VARIABLES
    strings_,   \* SymPool::strings_
    pool_,      \* SymPool::pool_, the String pointers it holds
    mem,        \* the cells of every page of strings_, by page identity
    recs,       \* the String records written below the cursor of their page
    ret,        \* history: content |-> the Symbols sym returned for it
    last        \* history: the last call of sym

poolvars == <<strings_, pool_, mem, recs, ret, last>>

\* The arena model: one Arena and its client.
VARIABLES
    arena,      \* the Arena
    caps,       \* page identity |-> the capacity new char[] was asked for
    log,        \* history: every cell of a page that allocate has handed out
    client,     \* what the client holds: the State it saved, and what it
                \* has called since
    clean,      \* only allocate has been called so far
    lastA,      \* history: the last call
    crashed     \* the process has ended in a fault

arenavars == <<arena, caps, log, client, clean, lastA, crashed>>

\* The lifetime model: SymPool objects and the heap their Arenas fill.
VARIABLES
    pools,      \* per SymPool object: whether it is alive, its two Arenas, and
                \* the SymPool whose container_ the allocator of pool_ refers to
    freed,      \* page identity |-> how often delete[] was called on it
    lastL       \* history: the last step

lifevars == <<pools, freed, lastL>>

\* The swap model: two Arenas and the heap they fill.
VARIABLES
    arenas,     \* the two Arenas
    capsW,      \* page identity |-> the capacity new char[] was asked for
    lastW       \* history: the last call, and whether swap has been called

swapvars == <<arenas, capsW, lastW>>

\* The Symbol model: the SymPool of the pool model, and a client that reads
\* the Symbols it was given.
VARIABLES
    obs,        \* history: the last call on a Symbol and what it returned
    signedChar  \* the build: whether plain char is a signed type

symvars == <<obs, signedChar>>

vars == <<poolvars, arenavars, lifevars, swapvars, symvars>>

PoolAtRest ==
    /\ strings_ = <<>> /\ pool_ = {} /\ mem = <<>> /\ recs = {} /\ ret = <<>>
    /\ last = <<>>

ArenaAtRest ==
    /\ arena = <<>> /\ caps = <<>> /\ log = {} /\ client = <<>> /\ clean = TRUE
    /\ lastA = <<>> /\ crashed = FALSE

LifeAtRest == pools = <<>> /\ freed = <<>> /\ lastL = <<>>

SwapAtRest == arenas = <<>> /\ capsW = <<>> /\ lastW = <<>>

SymAtRest == obs = <<>> /\ signedChar = FALSE

(***************************************************************************)
(* Platform and scaling.                                                   *)
(***************************************************************************)

\* sizeof(size_t) == sizeof(Sym::String) on LP64 (static_assert, sym.h:64).
SizeofSizeT == 8

\* Width of size_t in the model: arithmetic on size_t is modulo 2^SizeBits.
SizeBits == 6

Word == 2 ^ SizeBits

\* Arena::Default_Page_Size, scaled down from 1024 * 1024 so that pages fill up.
Default_Page_Size == 24

\* The most pages the string arena of the pool model may hold.
MaxPages == 2

\* The content of a cell of a fresh page (new char[n] leaves it indeterminate;
\* no code path of the model reads such a cell).
Junk == -1

NUL == 0

Max(x, y) == IF x >= y THEN x ELSE y

Last(s) == s[Len(s)]

(***************************************************************************)
(* Arena (arena.h).  An Arena value is the record of its three members.    *)
(***************************************************************************)

\* Arena::Arena(size_t page_size)
Arena(page_size) ==
    [pages_ |-> <<>>, page_size_ |-> page_size, index_ |-> page_size]

\* The test of Arena::allocate: index_ + num_bytes > page_size_, in size_t.
NewPageNeeded(a, num_bytes) == (a.index_ + num_bytes) % Word > a.page_size_

\* An allocate that has lost index_ += num_bytes.
allocate_NoAdvance(a, num_bytes, newp) ==
    LET fresh == (a.index_ + num_bytes) % Word > a.page_size_
        pages == IF fresh THEN Append(a.pages_, newp) ELSE a.pages_
        index == IF fresh THEN 0 ELSE a.index_
    IN  [arena  |-> [a EXCEPT !.pages_ = pages, !.index_ = index],
         fresh  |-> fresh,
         cap    |-> Max(a.page_size_, num_bytes),
         result |-> [page |-> IF pages = <<>> THEN 0 ELSE Last(pages),
                     off  |-> index]]

\* Arena::allocate(size_t num_bytes).  newp is the identity operator new[]
\* gives the page if one is created.  The result is the Arena afterwards,
\* whether a page was created and with which capacity, and the pointer
\* returned: pages_.back() + index_.  With no page in the list and none
\* created, pages_.back() is undefined: page 0 marks that outcome.
allocate(a, num_bytes, newp) ==
    LET fresh == NewPageNeeded(a, num_bytes)
        pages == IF fresh THEN Append(a.pages_, newp) ELSE a.pages_
        index == IF fresh THEN 0 ELSE a.index_
    IN  [arena  |-> [a EXCEPT !.pages_ = pages,
                              !.index_ = (index + num_bytes) % Word],
         fresh  |-> fresh,
         cap    |-> Max(a.page_size_, num_bytes),
         result |-> [page |-> IF pages = <<>> THEN 0 ELSE Last(pages),
                     off  |-> index]]

\* Arena::align(size_t a): index_ = (index_ + (a - 1)) & ~(a - 1), in size_t,
\* for a a power of two (x & ~(a - 1) clears the bits of x below a).
align(a, al) ==
    LET x == (a.index_ + (al - 1)) % Word
    IN  [a EXCEPT !.index_ = x - (x % al)]

\* template<class T> T* Arena::allocate(size_t num_elems): align(alignof(T)),
\* then allocate(num_elems * std::max(sizeof(T), alignof(T))), the product
\* in size_t.
allocate_T(a, num_elems, sizeofT, alignofT, newp) ==
    allocate(align(a, alignofT), (num_elems * Max(sizeofT, alignofT)) % Word, newp)

\* Arena::state()
state(a) == <<Len(a.pages_), a.index_>>

\* A deallocate that never restores the cursor.
deallocate_Never(a, st) == a

\* A deallocate that does not look at the page count.
deallocate_Always(a, st) == [a EXCEPT !.index_ = st[2]]

\* Arena::deallocate(State state)
deallocate(a, st) ==
    IF st[1] = Len(a.pages_) THEN [a EXCEPT !.index_ = st[2]] ELSE a

(***************************************************************************)
(* Sym and Sym::String (sym.h).  m maps a page identity to its cells.    *)
(***************************************************************************)

NullPtr == [page |-> 0, off |-> 0]

\* Sym::Sym(): str_ = nullptr.  Sym::Sym(const String* str): str_ = str.
Sym(str) == [str_ |-> str]

EmptySym == Sym(NullPtr)

\* The bytes of a size_t holding n (little endian; every size here is < 256).
SizeBytes(n) == [i \in 1..SizeofSizeT |-> IF i = 1 THEN n ELSE 0]

\* s->size read back from the record at p.
StringSize(m, p) == m[p.page][p.off + 1] + 256 * m[p.page][p.off + 2]

\* s->chars[i], i from 0.
StringChar(m, p, i) == m[p.page][p.off + SizeofSizeT + i + 1]

\* std::string_view(s->chars, s->size)
StringView(m, p) == [i \in 1..StringSize(m, p) |-> StringChar(m, p, i - 1)]

\* An Equal that compares the sizes only.
String_Equal_SizeOnly(m, s1, s2) == StringSize(m, s1) = StringSize(m, s2)

\* Sym::String::Equal
String_Equal(m, s1, s2) ==
    /\ StringSize(m, s1) = StringSize(m, s2)
    /\ \A i \in 0..(StringSize(m, s1) - 1) :
          StringChar(m, s1, i) = StringChar(m, s2, i)

RECURSIVE SumBytes(_)
SumBytes(v) == IF v = <<>> THEN 0 ELSE v[1] + SumBytes(Tail(v))

\* Sym::String::Hash: std::hash<std::string_view> of the content.  The
\* standard leaves the function open; this one reads the same bytes and
\* collides (a prime number of buckets).
String_Hash(m, s) == (StringSize(m, s) + SumBytes(StringView(m, s))) % 97

\* Sym::size, Sym::empty, Sym::operator bool, Sym::view, Sym::operator==
Sym_size(m, y) == IF y.str_ # NullPtr THEN StringSize(m, y.str_) ELSE 0

Sym_empty(y) == y.str_ = NullPtr

Sym_bool(y) == y.str_ # NullPtr

Sym_view(m, y) == IF y.str_ # NullPtr THEN StringView(m, y.str_) ELSE <<>>

Sym_eq(y1, y2) == y1.str_ = y2.str_

\* static constexpr const char* empty_ = "": the bytes of the literal.
empty_ == <<NUL>>

\* Sym::c_str()[i]: str_ ? str_->chars[i] : empty_[i]
Sym_c_str(m, y, i) == IF y.str_ # NullPtr THEN StringChar(m, y.str_, i) ELSE empty_[i + 1]

\* Sym::operator[](size_t i), for i < size() (the assert): c_str()[i]
Sym_at(m, y, i) == Sym_c_str(m, y, i)

\* Sym::front, Sym::back; size() - 1 in size_t.
Sym_front(m, y) == Sym_at(m, y, 0)

Sym_back(m, y) == Sym_at(m, y, (Sym_size(m, y) - 1) % Word)

\* Iterators are offsets into c_str(): begin() is 0, end() is size().
Sym_begin(m, y) == 0

Sym_end(m, y) == Sym_size(m, y)

\* A reverse iterator that reads the char at its base.
ReverseDeref_AtBase(m, y, base) == Sym_c_str(m, y, base)

\* *std::reverse_iterator(base): the char before base.
ReverseDeref(m, y, base) == Sym_c_str(m, y, base - 1)

\* for (auto i = y.rbegin(), e = y.rend(); i != e; ++i) out += *i, with the
\* reverse iterators given by their bases; ++i moves the base one back.
RECURSIVE ReverseLoop(_, _, _, _)
ReverseLoop(m, y, i, e) ==
    IF i = e THEN <<>>
    ELSE <<ReverseDeref(m, y, i)>> \o ReverseLoop(m, y, i - 1, e)

\* The chars from rbegin() = reverse_iterator(end()) to rend() =
\* reverse_iterator(begin()).
Sym_reversed(m, y) == ReverseLoop(m, y, Sym_end(m, y), Sym_begin(m, y))

Sign(x) == IF x < 0 THEN -1 ELSE IF x > 0 THEN 1 ELSE 0

Min(x, y) == IF x <= y THEN x ELSE y

\* std::char_traits<char>::compare over the first n chars: the first pair
\* that differs decides, the chars compared as unsigned char.
RECURSIVE TraitsCompare(_, _, _)
TraitsCompare(v1, v2, n) ==
    IF n = 0 THEN 0
    ELSE IF v1[1] # v2[1] THEN Sign(v1[1] - v2[1])
    ELSE TraitsCompare(Tail(v1), Tail(v2), n - 1)

\* A comparison of views that lets the shorter view come first.
ViewCompare_SizeFirst(v1, v2) ==
    IF Len(v1) # Len(v2) THEN Sign(Len(v1) - Len(v2))
    ELSE TraitsCompare(v1, v2, Len(v1))

\* std::string_view <=> std::string_view: traits compare over the common
\* length, then the lengths.  -1 is less, 0 equal, 1 greater.
ViewCompare(v1, v2) ==
    LET r == TraitsCompare(v1, v2, Min(Len(v1), Len(v2)))
    IN  IF r # 0 THEN r ELSE Sign(Len(v1) - Len(v2))

\* Sym::operator<=>(Sym other): this->view() <=> other.view()
Sym_cmp(m, y1, y2) == ViewCompare(Sym_view(m, y1), Sym_view(m, y2))

\* The value of the char that holds byte b: plain char is signed or unsigned
\* as the build has it.
CharValue(sgn, b) == IF sgn /\ b >= 128 THEN b - 256 ELSE b

\* Sym::operator<=>(char c); sgn: plain char is signed.
Sym_cmp_char(m, y, c, sgn) ==
    IF Sym_size(m, y) = 0 THEN -1
    ELSE LET cmp == Sign(CharValue(sgn, Sym_at(m, y, 0)) - CharValue(sgn, c))
         IN  IF Sym_size(m, y) = 1 THEN cmp
             ELSE IF cmp = 0 THEN 1 ELSE cmp

\* Sym::operator==(char), Sym::operator!=(char)
Sym_eq_char(m, y, c, sgn) == Sym_cmp_char(m, y, c, sgn) = 0

Sym_ne_char(m, y, c, sgn) == Sym_cmp_char(m, y, c, sgn) # 0

\* alignof(size_t), the alignment of Sym::String (its size field).
AlignofString == SizeofSizeT

(***************************************************************************)
(* SymPool (sym.h).                                                        *)
(***************************************************************************)

\* A record written without the '\0' after the characters.
WriteString_NoNul(m, ptr, s) ==
    LET bytes == SizeBytes(Len(s)) \o s
    IN  [m EXCEPT ![ptr.page] =
            [k \in 1..Len(@) |->
                IF k > ptr.off /\ k <= ptr.off + Len(bytes)
                THEN bytes[k - ptr.off] ELSE @[k]]]

\* new (ptr) String(s.size()); *std::copy(s.begin(), s.end(), ptr->chars) = '\0'
WriteString(m, ptr, s) ==
    LET bytes == SizeBytes(Len(s)) \o s \o <<NUL>>
    IN  [m EXCEPT ![ptr.page] =
            [k \in 1..Len(@) |->
                IF k > ptr.off /\ k <= ptr.off + Len(bytes)
                THEN bytes[k - ptr.off] ELSE @[k]]]

\* An emplace that inserts whatever the set holds.
emplace_AlwaysInsert(pool, m, ptr) ==
    [i |-> ptr, ins |-> TRUE, pool |-> pool \cup {ptr}]

\* pool_.emplace(ptr) of the unordered set keyed by String::Hash and
\* String::Equal: the element equal to *ptr if there is one, else ptr inserted.
emplace(pool, m, ptr) ==
    LET same == {q \in pool : /\ String_Hash(m, q) = String_Hash(m, ptr)
                              /\ String_Equal(m, q, ptr)}
    IN  IF same = {}
        THEN [i |-> ptr, ins |-> TRUE, pool |-> pool \cup {ptr}]
        ELSE [i |-> CHOOSE q \in same : TRUE, ins |-> FALSE, pool |-> pool]

\* The result of a call of sym that returns Sym() at once.
SymEmpty(strings, pool, m) ==
    [strings |-> strings, pool |-> pool, mem |-> m, sym |-> EmptySym,
     ptr |-> NullPtr, ins |-> FALSE]

\* SymPool::sym(std::string_view s) past its first line: the tentative record,
\* the lookup, and the commit or the rollback.  strings is the pool's string
\* arena, pool its index, m the pages.
sym_intern(strings, pool, m, s) ==
    LET st   == state(strings)
        al   == allocate(strings, SizeofSizeT + Len(s) + 1, Len(m) + 1)
        mem1 == IF al.fresh THEN Append(m, [k \in 1..al.cap |-> Junk]) ELSE m
        ptr  == al.result
        mem2 == WriteString(mem1, ptr, s)
        em   == emplace(pool, mem2, ptr)
    IN  IF em.ins
        THEN [strings |-> al.arena, pool |-> em.pool, mem |-> mem2,
              sym |-> Sym(ptr), ptr |-> ptr, ins |-> TRUE]
        ELSE [strings |-> deallocate(al.arena, st), pool |-> pool, mem |-> mem2,
              sym |-> Sym(em.i), ptr |-> ptr, ins |-> FALSE]

\* A sym that has lost its first line.
sym_NoEmptyCheck(strings, pool, m, s) == sym_intern(strings, pool, m, s)

\* SymPool::sym(std::string_view s)
sym(strings, pool, m, s) ==
    IF s = <<>> THEN SymEmpty(strings, pool, m) ELSE sym_intern(strings, pool, m, s)

\* strlen(s) of a buffer that holds a NUL.
strlen(buf) == (CHOOSE k \in 1..Len(buf) : buf[k] = NUL /\ \A j \in 1..(k - 1) : buf[j] # NUL) - 1

\* std::string_view(s, strlen(s))
ViewOfCStr(buf) == SubSeq(buf, 1, strlen(buf))

\* A null const char*.
NullCStr == <<>>

\* SymPool::sym(const char* s)
sym_cstr(strings, pool, m, s) ==
    IF s = NullCStr \/ s[1] = NUL
    THEN SymEmpty(strings, pool, m)
    ELSE sym(strings, pool, m, ViewOfCStr(s))

\* SymPool::sym(const std::string& s)
sym_string(strings, pool, m, s) == sym(strings, pool, m, s)

(***************************************************************************)
(* The pool model: one SymPool and the calls of its sym overloads.         *)
(***************************************************************************)

\* A string longer than a page of the default size.
LongView == [i \in 1..(Default_Page_Size - SizeofSizeT) |-> 97]

\* The byte strings handed to sym(std::string_view) and sym(const std::string&).
Views == {<<>>, <<NUL>>, <<97>>, <<97, 98>>, LongView}

\* The buffers handed to sym(const char*): null, or bytes up to and past a NUL.
CStrs == {NullCStr, <<NUL>>, <<NUL, 98>>, <<97, NUL>>, <<97, NUL, 98, NUL>>}

\* The contents sym can be asked for.
Contents == Views \cup {ViewOfCStr(c) : c \in CStrs \ {NullCStr}}

\* Whether the record at p lies below the cursor of its page.
BelowCursor(a, p) ==
    \/ \E k \in 1..(Len(a.pages_) - 1) : a.pages_[k] = p.page
    \/ a.pages_ # <<>> /\ Last(a.pages_) = p.page /\ p.off < a.index_

PoolFrame == UNCHANGED <<arenavars, lifevars, swapvars, symvars>>

InitPool ==
    /\ strings_ = Arena(Default_Page_Size)
    /\ pool_ = {}
    /\ mem = <<>>
    /\ recs = {}
    /\ ret = [c \in Contents |-> {}]
    /\ last = [op |-> "none"]
    /\ ArenaAtRest /\ LifeAtRest /\ SwapAtRest /\ SymAtRest

\* The model stops short of a page beyond MaxPages.
Room(s) ==
    s # <<>> /\ NewPageNeeded(strings_, SizeofSizeT + Len(s) + 1)
        => Len(strings_.pages_) < MaxPages

\* One call of sym: overload op was given arg, which holds content s, and
\* returned r.
Call(op, arg, s, r) ==
    /\ Room(s)
    /\ strings_' = r.strings
    /\ pool_' = r.pool
    /\ mem' = r.mem
    /\ recs' = {p \in recs \cup ({r.ptr} \ {NullPtr}) : BelowCursor(r.strings, p)}
    /\ ret' = [ret EXCEPT ![s] = @ \cup {r.sym}]
    /\ last' = [op |-> op, arg |-> arg, content |-> s, sym |-> r.sym,
                ptr |-> r.ptr, ins |-> r.ins,
                known |-> \E q \in pool_ : StringView(mem, q) = s,
                pre |-> [strings |-> strings_, pool |-> pool_, pages |-> Len(mem)]]
    /\ PoolFrame

\* Sym sym(std::string_view s)
SymView == \E s \in Views : Call("view", s, s, sym(strings_, pool_, mem, s))

\* Sym sym(const std::string& s)
SymString == \E s \in Views : Call("string", s, s, sym_string(strings_, pool_, mem, s))

\* Sym sym(const char* s)
SymCStr ==
    \E c \in CStrs :
        Call("cstr", c, IF c = NullCStr THEN <<>> ELSE ViewOfCStr(c),
             sym_cstr(strings_, pool_, mem, c))

NextPool == SymView \/ SymString \/ SymCStr

SpecPool == InitPool /\ [][NextPool]_vars

(***************************************************************************)
(* Properties of the pool model.                                           *)
(***************************************************************************)

Called == last.op # "none"

\* sizeof(String) + s.size() + 1
RecordSize(s) == SizeofSizeT + Len(s) + 1

\* C1: after any sequence of sym calls on one pool, the Symbols returned for
\* contents s1 and s2 are identity-equal (Sym::operator==) if and only if s1
\* and s2 have the same length and bytes; in particular every call for one
\* content returns the same Symbol.
C1_IdentityIffContent ==
    \A s1 \in Contents, s2 \in Contents :
        \A y1 \in ret[s1], y2 \in ret[s2] : Sym_eq(y1, y2) <=> s1 = s2

\* A content already interned was interned again, and other contents of the
\* same and of another length have Symbols too.
C1_Witness ==
    /\ Called /\ last.known /\ ~last.ins
    /\ ret[<<NUL>>] # {} /\ ret[<<97>>] # {} /\ ret[<<97, 98>>] # {} /\ ret[<<>>] # {}

\* C2 as claimed: below the cursors of the string arena no two String records
\* hold the same content.
C2_AtMostOneRecord ==
    \A p \in recs, q \in recs : p # q => StringView(mem, p) # StringView(mem, q)

\* C2, amended: the index refers to at most one String record per content,
\* every indexed record lies below the cursor, and a record below the cursor
\* that the index does not refer to is the first record of its page and
\* repeats the content of an indexed record of an earlier page.
C2_AtMostOneIndexed ==
    /\ \A p \in pool_, q \in pool_ : p # q => StringView(mem, p) # StringView(mem, q)
    /\ pool_ \subseteq recs
    /\ \A p \in recs \ pool_ :
          /\ p.off = 0
          /\ \E q \in pool_ : q.page < p.page /\ StringView(mem, q) = StringView(mem, p)

\* A duplicate record was left below the cursor, beside indexed records.
C2_Witness == recs \ pool_ # {} /\ Cardinality(pool_) >= 2

\* C6: every Symbol ever returned for a non-empty content s still reports
\* view() = s and size() = length of s, whatever calls of sym came later.
C6_ContentStable ==
    \A s \in Contents \ {<<>>} :
        \A y \in ret[s] : Sym_view(mem, y) = s /\ Sym_size(mem, y) = Len(s)

\* Three contents have Symbols, a second page was opened, and the last call
\* found its content and rolled its tentative record back.
C6_Witness ==
    /\ Cardinality(pool_) >= 3 /\ Len(strings_.pages_) = 2
    /\ Called /\ last.known /\ last.content # <<>>
    /\ strings_ = last.pre.strings /\ strings_.index_ < Default_Page_Size

\* The Symbol Sym(): equal to a default-constructed Sym, size 0, empty, false.
IsEmptySym(y) ==
    Sym_eq(y, Sym(NullPtr)) /\ Sym_size(mem, y) = 0 /\ Sym_empty(y) /\ ~Sym_bool(y)

\* C8 as claimed: through every overload, the empty string, the null pointer
\* and a terminator-only input give the empty Symbol.
C8_EmptyNormalization ==
    Called /\ ( \/ last.arg = <<>>
                \/ last.arg = <<NUL>>
                \/ last.op = "cstr" /\ last.arg[1] = NUL )
        => IsEmptySym(last.sym)

\* C8, amended: a zero-length view or string, a null pointer and a
\* null-terminated input whose first byte is the terminator give the empty
\* Symbol; a view or string of one NUL byte gives a Symbol of size 1.
C8_EmptyNormalizationByLength ==
    /\ Called /\ last.op \in {"view", "string"} /\ last.arg = <<>>
          => IsEmptySym(last.sym)
    /\ Called /\ last.op = "cstr" /\ (last.arg = NullCStr \/ last.arg[1] = NUL)
          => IsEmptySym(last.sym)
    /\ Called /\ last.op \in {"view", "string"} /\ last.arg = <<NUL>>
          => ~Sym_empty(last.sym) /\ Sym_size(mem, last.sym) = 1

\* sym(const char*) was given a terminator-only buffer on a pool that holds
\* records.
C8_Witness == Called /\ last.op = "cstr" /\ last.arg = <<NUL>> /\ pool_ # {}

\* C9 as claimed: a call of sym for a content the index holds leaves the
\* cursor of the string arena and the index as they were.
C9_KnownLeavesCursor ==
    Called /\ last.known =>
        /\ state(strings_) = state(last.pre.strings)
        /\ pool_ = last.pre.pool

\* C9, amended: such a call leaves the index as it was; it leaves the string
\* arena as it was when the tentative record fits in the current page, and
\* else leaves one page more, with the cursor past the discarded record.
C9_KnownLeavesIndex ==
    Called /\ last.known =>
        /\ pool_ = last.pre.pool
        /\ IF NewPageNeeded(last.pre.strings, RecordSize(last.content))
           THEN /\ Len(strings_.pages_) = Len(last.pre.strings.pages_) + 1
                /\ strings_.index_ = RecordSize(last.content)
           ELSE strings_ = last.pre.strings

\* A known content was interned with the cursor inside a page, and the
\* tentative record was rolled back.
C9_Witness ==
    /\ Called /\ last.known /\ last.ptr.off > 0
    /\ strings_.index_ = last.ptr.off

\* C10: a call of sym with an empty input returns the empty Symbol and leaves
\* the pages and the cursor of the string arena and the index as they were.
C10_EmptyChangesNothing ==
    Called /\ last.content = <<>> =>
        /\ last.sym = EmptySym
        /\ strings_ = last.pre.strings
        /\ pool_ = last.pre.pool
        /\ Len(mem) = last.pre.pages

\* An empty input was given to a pool that holds records.
C10_Witness == Called /\ last.content = <<>> /\ pool_ # {} /\ strings_.index_ > 0

\* The contents sym was asked for so far, but for the zero-length one.
Interned == {s \in Contents \ {<<>>} : ret[s] # {}}

\* The Symbols sym returned so far that are not the empty Symbol.
NonEmptySyms == {y \in UNION {ret[s] : s \in Contents} : Sym_bool(y)}

\* C11: after any sequence of sym calls on a fresh pool, the index holds
\* exactly one String record for each content of length above zero that sym
\* was asked for and no other record, a zero-length input adds none and comes
\* back as the empty Symbol, and the non-empty Symbols returned have as many
\* distinct pointers as there are such contents.
C11_OneRecordPerContent ==
    /\ \A s \in Interned :
          Cardinality({q \in pool_ : StringView(mem, q) = s}) = 1
    /\ Cardinality(pool_) = Cardinality(Interned)
    /\ \A y \in ret[<<>>] : y = EmptySym
    /\ Cardinality({y.str_ : y \in NonEmptySyms}) = Cardinality(Interned)

\* Two contents were interned, one of them twice, and the empty string: the
\* index holds two records.
C11_Witness ==
    /\ Called /\ last.known /\ last.content = <<97>>
    /\ ret[<<>>] # {} /\ ret[<<97, 98>>] # {}
    /\ Cardinality(pool_) = 2

\* C14: every Symbol ever returned, the empty one too, has c_str()[size()]
\* = NUL, whatever calls of sym came later; the NUL is not counted in size(),
\* which is the length of the content, and the record that follows in the page
\* starts right behind it.
C14_NulTerminated ==
    /\ \A s \in Contents : \A y \in ret[s] :
          /\ Sym_c_str(mem, y, Sym_size(mem, y)) = NUL
          /\ Sym_size(mem, y) = Len(s)
    /\ \A p \in recs :
          /\ mem[p.page][p.off + RecordSize(StringView(mem, p))] = NUL
          /\ \A q \in recs : q.page = p.page /\ q.off > p.off =>
                q.off >= p.off + RecordSize(StringView(mem, p))

\* Symbols of three contents and the empty Symbol were returned, a record was
\* written behind another, and the last call rolled its record back.
C14_Witness ==
    /\ ret[<<>>] # {} /\ ret[<<NUL>>] # {} /\ ret[<<97>>] # {} /\ ret[<<97, 98>>] # {}
    /\ Called /\ last.known /\ last.ptr.off > 0
    /\ \E p \in pool_ : p.off > 0

\* C20 as claimed: every String record of the string arena starts at a page
\* offset that is a multiple of alignof(size_t).
C20_RecordsAligned == \A p \in recs : p.off % AlignofString = 0

(***************************************************************************)
(* The arena model: one Arena, the calls its client makes on it, and the   *)
(* pages operator new[] has handed out.                                    *)
(***************************************************************************)

\* The most pages the heap of the arena model hands out.
MaxHeapPages == 2

\* The largest array new char[] gives; beyond it, it throws std::bad_alloc.
MaxAlloc == 8

\* The page sizes the Arena is constructed with.
PageSizes == {0, 4}

\* The byte counts asked for; Word - 2 only fits after size_t wraps.
Sizes == {0, 1, 3, 6, Word - 2}

NoState == <<>>

\* The client holds no State.
Idle == [phase |-> "idle", saved |-> NoState, count |-> 0, fresh |-> FALSE,
         first |-> NullPtr, n |-> 0, left |-> 0]

\* The cells of the range of n bytes at pointer p.
Cells(p, n) == {<<p.page, k>> : k \in p.off..(p.off + n - 1)}

\* A cell that lies in a page of the heap.
InPage(c, heap) == c[1] \in 1..Len(heap) /\ c[2] >= 0 /\ c[2] < heap[c[1]]

ArenaFrame == UNCHANGED <<poolvars, lifevars, swapvars, symvars>>

InitArena ==
    /\ arena \in {Arena(ps) : ps \in PageSizes}
    /\ caps = <<>>
    /\ log = {}
    /\ client = Idle
    /\ clean = TRUE
    /\ lastA = [op |-> "none"]
    /\ crashed = FALSE
    /\ PoolAtRest /\ LifeAtRest /\ SwapAtRest /\ SymAtRest

\* What the client notes of a call of allocate that returned: the calls since
\* it saved a State, the first of them, and the call that follows its
\* rollback.
Noted(n, al) ==
    IF client.phase = "saved"
    THEN [client EXCEPT !.count = IF @ = 0 THEN 1 ELSE 2,
                        !.fresh = @ \/ al.fresh,
                        !.first = IF client.count = 0 THEN al.result ELSE @,
                        !.n = IF client.count = 0 THEN n ELSE @,
                        !.left = IF client.count = 0 THEN al.arena.index_ ELSE @]
    ELSE IF client.phase = "rolled" THEN [client EXCEPT !.phase = "next"]
    ELSE Idle

\* The bookkeeping of a call of allocate that returned.
Returned(n, al, outcome) ==
    LET heap  == IF al.fresh THEN Append(caps, al.cap) ELSE caps
        cells == Cells(al.result, n)
    IN  /\ arena' = al.arena
        /\ caps' = heap
        /\ log' = log \cup {c \in cells : InPage(c, heap)}
        /\ client' = Noted(n, al)
        /\ lastA' = [op |-> "allocate", n |-> n, outcome |-> outcome,
                     result |-> al.result, fresh |-> al.fresh,
                     clash |-> cells \cap log # {},
                     inside |-> \A c \in cells : InPage(c, heap)]
        /\ UNCHANGED <<clean, crashed>>
        /\ ArenaFrame

\* A call of allocate that did not return.
Failed(n, outcome) ==
    /\ lastA' = [op |-> "allocate", n |-> n, outcome |-> outcome]
    /\ client' = IF client.phase = "saved" THEN client ELSE Idle
    /\ UNCHANGED <<arena, caps, log, clean>>
    /\ ArenaFrame

\* void* allocate(size_t num_bytes)
Allocate(n) ==
    LET al == allocate(arena, n, Len(caps) + 1)
    IN  /\ ~crashed
        /\ \/ \* a page is created
              /\ al.fresh /\ al.cap <= MaxAlloc /\ Len(caps) < MaxHeapPages
              /\ Returned(n, al, "ok")
           \/ \* new char[] throws std::bad_alloc: the Arena is as it was
              /\ al.fresh /\ al.cap > MaxAlloc
              /\ Failed(n, "bad_alloc")
              /\ UNCHANGED crashed
           \/ \* the current page serves the request
              /\ ~al.fresh /\ arena.pages_ # <<>>
              /\ Returned(n, al, "ok")
           \/ \* pages_.back() of an empty vector: a stray pointer comes back
              /\ ~al.fresh /\ arena.pages_ = <<>>
              /\ Returned(n, al, "stray")
           \/ \* pages_.back() of an empty vector: the read faults
              /\ ~al.fresh /\ arena.pages_ = <<>>
              /\ Failed(n, "fault")
              /\ crashed' = TRUE

\* auto state = arena.state();
Save ==
    /\ ~crashed
    /\ client' = [Idle EXCEPT !.phase = "saved", !.saved = state(arena)]
    /\ lastA' = [op |-> "state"]
    /\ UNCHANGED <<arena, caps, log, clean, crashed>>
    /\ ArenaFrame

\* arena.deallocate(state);
Rollback ==
    /\ ~crashed
    /\ client.phase = "saved"
    /\ arena' = deallocate(arena, client.saved)
    /\ client' = [client EXCEPT !.phase = "rolled"]
    /\ clean' = FALSE
    /\ lastA' = [op |-> "deallocate", index |-> arena.index_]
    /\ UNCHANGED <<caps, log, crashed>>
    /\ ArenaFrame

NextArena ==
    \/ \E n \in Sizes : Allocate(n)
    \/ Save
    \/ Rollback

SpecArena == InitArena /\ [][NextArena]_vars

(***************************************************************************)
(* Properties of the arena model.                                          *)
(***************************************************************************)

\* The last call was an allocate that returned a pointer.
Allocated == lastA.op = "allocate" /\ lastA.outcome \in {"ok", "stray"}

\* C3 as claimed: on an Arena that has seen calls of allocate only, every
\* range returned lies with all its n bytes inside one page, and shares no
\* byte with a range returned before.
C3_DisjointInPage == Allocated /\ clean => lastA.inside /\ ~lastA.clash

\* C4: save, allocate(n), rollback.  If allocate(n) created no page, the
\* cursor is the saved one again, and the next allocate, if the page serves
\* it, returns the pointer allocate(n) returned; a next allocate of n bytes is
\* served by the page.  If allocate(n) created a page, rollback leaves the
\* cursor where allocate(n) left it, and the next allocate the page serves
\* starts there.
C4_RollbackRestores ==
    /\ lastA.op = "deallocate" /\ client.count = 1 =>
          IF client.fresh
          THEN arena.index_ = lastA.index /\ arena.index_ = client.left
          ELSE state(arena) = client.saved /\ arena.index_ = client.first.off
    /\ client.phase = "next" /\ client.count = 1 /\ lastA.outcome = "ok" =>
          /\ ~lastA.fresh =>
                lastA.result = IF client.fresh
                               THEN [client.first EXCEPT !.off = client.left]
                               ELSE client.first
          /\ ~client.fresh /\ lastA.n = client.n => ~lastA.fresh

\* After save, allocate(n) inside the page and rollback, the next allocate
\* returned the pointer allocate(n) had returned.
C4_Witness ==
    /\ client.phase = "next" /\ client.count = 1 /\ ~client.fresh
    /\ client.n > 0 /\ client.first.off > 0
    /\ lastA.outcome = "ok" /\ lastA.n > 0 /\ lastA.result = client.first

\* C5 as claimed: rollback to a State after which two or more allocations
\* were made leaves the cursor as it is, and the next allocate returns no
\* byte that was returned before.
C5_StaleRollbackNoOp ==
    /\ lastA.op = "deallocate" /\ client.count = 2 => arena.index_ = lastA.index
    /\ client.phase = "next" /\ client.count = 2 /\ Allocated => ~lastA.clash

\* C5, amended: such a rollback leaves the cursor as it is if one of those
\* allocations created a page, and sets the offset back to the saved one if
\* all of them were served by the page that was current.
C5_StaleRollbackByPage ==
    lastA.op = "deallocate" /\ client.count = 2 =>
        IF client.fresh
        THEN arena.index_ = lastA.index
        ELSE state(arena) = client.saved

\* After two allocations inside one page and the rollback, the next allocate
\* returned bytes that had been returned before.
C5_Witness ==
    /\ client.phase = "next" /\ client.count = 2 /\ ~client.fresh
    /\ lastA.outcome = "ok" /\ lastA.clash /\ lastA.inside

\* The request of n bytes fits in what is left of the current page of a.
Fits(a, heap, n) == a.pages_ # <<>> /\ a.index_ + n <= heap[Last(a.pages_)]

\* C17 as claimed: a call of allocate(n) that returns has created a page
\* exactly if n bytes did not fit in what was left of the current page; the
\* new page has capacity max(page_size_, n) and is the last of the list; the
\* pointer returned lies in the last page of the list; and no step makes the
\* list shorter.
C17_PagePolicy ==
    [][ /\ Len(arena'.pages_) >= Len(arena.pages_)
        /\ lastA'.op = "allocate" /\ lastA'.outcome \in {"ok", "stray"} =>
              /\ (Len(arena'.pages_) = Len(arena.pages_) + 1)
                    <=> ~Fits(arena, caps, lastA'.n)
              /\ Len(arena'.pages_) > Len(arena.pages_) =>
                    /\ Last(caps') = Max(arena.page_size_, lastA'.n)
                    /\ Last(arena'.pages_) = Len(caps')
              /\ arena'.pages_ # <<>>
              /\ lastA'.result.page = Last(arena'.pages_) ]_vars

\* C19 as claimed: a call of allocate on an Arena with an empty page list
\* that does not end in std::bad_alloc leaves a page in the list.
C19_FirstAllocateCreatesPage ==
    [][ arena.pages_ = <<>> /\ lastA'.op = "allocate" /\ lastA'.outcome # "bad_alloc"
            => arena'.pages_ # <<>> ]_vars

(***************************************************************************)
(* The typed model: the Arena of the arena model, asked for objects of a   *)
(* type through allocate<T> and for bytes through allocate.                *)
(***************************************************************************)

\* sizeof(T) and alignof(T) of the types asked for.
Types == {[size |-> 1, align |-> 1], [size |-> 2, align |-> 2],
          [size |-> 4, align |-> 4]}

\* The element counts asked for; the last makes the byte count of the widest
\* type wrap in size_t.
Counts == {0, 1, 2, Word \div 4 + 1}

\* T* allocate<T>(size_t num_elems).  align has moved index_ before new char[]
\* can throw.
AllocateT(count, T) ==
    LET al    == allocate_T(arena, count, T.size, T.align, Len(caps) + 1)
        heap  == IF al.fresh THEN Append(caps, al.cap) ELSE caps
        cells == Cells(al.result, count * Max(T.size, T.align))
        note(outcome) ==
            [op |-> "allocate_T", count |-> count, size |-> T.size,
             align |-> T.align, outcome |-> outcome, result |-> al.result,
             fresh |-> al.fresh, inside |-> \A c \in cells : InPage(c, heap)]
        returns(outcome) ==
            /\ arena' = al.arena
            /\ caps' = heap
            /\ log' = log \cup {c \in cells : InPage(c, heap)}
            /\ lastA' = note(outcome)
            /\ UNCHANGED crashed
        fails(outcome) ==
            /\ arena' = align(arena, T.align)
            /\ lastA' = [op |-> "allocate_T", count |-> count, size |-> T.size,
                         align |-> T.align, outcome |-> outcome]
            /\ UNCHANGED <<caps, log>>
    IN  /\ ~crashed
        /\ client' = Idle
        /\ UNCHANGED clean
        /\ ArenaFrame
        /\ \/ /\ al.fresh /\ al.cap <= MaxAlloc /\ Len(caps) < MaxHeapPages
              /\ returns("ok")
           \/ /\ al.fresh /\ al.cap > MaxAlloc
              /\ fails("bad_alloc")
              /\ UNCHANGED crashed
           \/ /\ ~al.fresh /\ arena.pages_ # <<>>
              /\ returns("ok")
           \/ /\ ~al.fresh /\ arena.pages_ = <<>>
              /\ returns("stray")
           \/ /\ ~al.fresh /\ arena.pages_ = <<>>
              /\ fails("fault")
              /\ crashed' = TRUE

NextTyped ==
    \/ \E count \in Counts, T \in Types : AllocateT(count, T)
    \/ \E n \in Sizes : Allocate(n)

SpecTyped == InitArena /\ [][NextTyped]_vars

\* C13 as claimed: a call of allocate<T>(count) that returns gives a pointer
\* into a page at an offset that is a multiple of alignof(T): the offset of a
\* new page is 0, and in the current page it is the smallest multiple of
\* alignof(T) that is not below the cursor; the cursor is then count *
\* max(sizeof(T), alignof(T)) bytes behind that offset, and these bytes lie
\* in the page.
C13_TypedAligned ==
    [][ lastA'.op = "allocate_T" /\ lastA'.outcome \in {"ok", "stray"} =>
          LET al   == lastA'.align
              want == lastA'.count * Max(lastA'.size, al)
              up   == ((arena.index_ + al - 1) \div al) * al
          IN  /\ arena'.pages_ # <<>>
              /\ lastA'.result.page = Last(arena'.pages_)
              /\ lastA'.result.off % al = 0
              /\ lastA'.result.off = IF lastA'.fresh THEN 0 ELSE up
              /\ arena'.index_ = lastA'.result.off + want
              /\ lastA'.inside ]_vars

(***************************************************************************)
(* The lifetime model: SymPool objects are constructed, filled, swapped,   *)
(* move-constructed and destroyed; the heap counts the delete[] of a page. *)
(***************************************************************************)

PoolIds == {1, 2}

\* The most pages the heap of the lifetime model hands out.
MaxLifePages == 3

\* The byte counts strings_ is asked for: a short String record, and one
\* longer than a page.
LifeSizes == {RecordSize(<<97>>), RecordSize(LongView)}

\* The byte count container_ is asked for: a node of the index, a pointer to
\* the next node and a const String*.
NodeSize == 2 * SizeofSizeT

\* The storage of a SymPool that is not alive.
NoPool == [live |-> FALSE, strings_ |-> Arena(0), container_ |-> Arena(0), via |-> 0]

LifeFrame == UNCHANGED <<poolvars, arenavars, swapvars, symvars>>

Running == lastL.op # "fault"

InitLife ==
    /\ pools = [p \in PoolIds |-> NoPool]
    /\ freed = <<>>
    /\ lastL = [op |-> "none"]
    /\ PoolAtRest /\ ArenaAtRest /\ SwapAtRest /\ SymAtRest

\* SymPool::SymPool(): both Arenas of the default page size; the allocator of
\* pool_ refers to the pool's own container_.
Construct(p) ==
    /\ Running /\ ~pools[p].live
    /\ pools' = [pools EXCEPT ![p] =
          [live |-> TRUE, strings_ |-> Arena(Default_Page_Size),
           container_ |-> Arena(Default_Page_Size), via |-> p]]
    /\ lastL' = [op |-> "construct", p |-> p]
    /\ UNCHANGED freed
    /\ LifeFrame

\* The Arena the implicit Arena(const Arena&) builds: Arena declares a
\* destructor and no copy or move constructor, so an Arena built from an
\* rvalue Arena is a member-wise copy, its pages_ a copy of the pointers.
ArenaCopy(a) == [pages_ |-> a.pages_, page_size_ |-> a.page_size_, index_ |-> a.index_]

\* SymPool::SymPool(SymPool&& other): strings_(std::move(other.strings_)),
\* container_(std::move(other.container_)), pool_(std::move(other.pool_)).
\* The allocator of pool_ comes with it and still refers to other's Arena.
MoveConstruct(p, other) ==
    /\ Running /\ ~pools[p].live /\ pools[other].live /\ p # other
    /\ pools' = [pools EXCEPT ![p] =
          [live |-> TRUE, strings_ |-> ArenaCopy(pools[other].strings_),
           container_ |-> ArenaCopy(pools[other].container_),
           via |-> pools[other].via]]
    /\ lastL' = [op |-> "move", p |-> p]
    /\ UNCHANGED freed
    /\ LifeFrame

\* strings_.allocate(n), as SymPool::sym calls it; dup: the index held the
\* content, and strings_.deallocate(state) follows.
AllocStrings(p, n, dup) ==
    LET a  == pools[p].strings_
        al == allocate(a, n, Len(freed) + 1)
    IN  /\ Running /\ pools[p].live
        /\ al.fresh => Len(freed) < MaxLifePages
        /\ pools' = [pools EXCEPT ![p].strings_ =
              IF dup THEN deallocate(al.arena, state(a)) ELSE al.arena]
        /\ freed' = IF al.fresh THEN Append(freed, 0) ELSE freed
        /\ lastL' = [op |-> "strings", p |-> p]
        /\ LifeFrame

\* Arena::Allocator::allocate of the index pool_, as pool_.emplace calls it: a
\* node from the container_ its allocator refers to.  That Arena may have been
\* destroyed: the call then ends in a fault.
AllocContainer(p) ==
    LET v  == pools[p].via
        al == allocate(pools[v].container_, NodeSize, Len(freed) + 1)
    IN  /\ Running /\ pools[p].live
        /\ IF pools[v].live
           THEN /\ al.fresh => Len(freed) < MaxLifePages
                /\ pools' = [pools EXCEPT ![v].container_ = al.arena]
                /\ freed' = IF al.fresh THEN Append(freed, 0) ELSE freed
                /\ lastL' = [op |-> "container", p |-> p]
           ELSE /\ lastL' = [op |-> "fault", p |-> p]
                /\ UNCHANGED <<pools, freed>>
        /\ LifeFrame

\* friend void swap(Arena& a1, Arena& a2): pages_ and index_ change places.
swap(a1, a2) ==
    <<[a1 EXCEPT !.pages_ = a2.pages_, !.index_ = a2.index_],
      [a2 EXCEPT !.pages_ = a1.pages_, !.index_ = a1.index_]>>

\* friend void swap(SymPool& p1, SymPool& p2): the Arenas are swapped, and the
\* contents of the index; its allocator stays (it does not propagate).
SwapPools(p1, p2) ==
    LET s == swap(pools[p1].strings_, pools[p2].strings_)
        c == swap(pools[p1].container_, pools[p2].container_)
    IN  /\ Running /\ pools[p1].live /\ pools[p2].live /\ p1 < p2
        /\ pools' = [pools EXCEPT ![p1].strings_ = s[1], ![p2].strings_ = s[2],
                                  ![p1].container_ = c[1], ![p2].container_ = c[2]]
        /\ lastL' = [op |-> "swap", p |-> p1]
        /\ UNCHANGED freed
        /\ LifeFrame

\* The pages Arena a lists, each as often as it lists it.
DeleteAll(heap, a) ==
    [id \in 1..Len(heap) |->
        heap[id] + Cardinality({k \in 1..Len(a.pages_) : a.pages_[k] = id})]

\* SymPool::~SymPool(): ~Arena() of container_ and of strings_, each
\* for (auto p : pages_) delete[] p.  A second delete[] of a page is
\* undefined; the model records it and ends there.
Destroy(p) ==
    LET heap == DeleteAll(DeleteAll(freed, pools[p].container_), pools[p].strings_)
    IN  /\ Running /\ pools[p].live
        /\ freed' = heap
        /\ pools' = [pools EXCEPT ![p] = NoPool]
        /\ lastL' = [op |-> IF \E id \in 1..Len(heap) : heap[id] > 1
                            THEN "fault" ELSE "destroy", p |-> p]
        /\ LifeFrame

NextLife ==
    \/ \E p \in PoolIds : Construct(p)
    \/ \E p \in PoolIds, other \in PoolIds : MoveConstruct(p, other)
    \/ \E p \in PoolIds, n \in LifeSizes, dup \in BOOLEAN : AllocStrings(p, n, dup)
    \/ \E p \in PoolIds : AllocContainer(p)
    \/ \E p1 \in PoolIds, p2 \in PoolIds : SwapPools(p1, p2)
    \/ \E p \in PoolIds : Destroy(p)

SpecLife == InitLife /\ [][NextLife]_vars

(***************************************************************************)
(* Properties of the lifetime model.                                       *)
(***************************************************************************)

\* The pages a live SymPool lists in one of its Arenas.
Listed ==
    UNION {{pools[p].strings_.pages_[k] : k \in 1..Len(pools[p].strings_.pages_)}
           \cup {pools[p].container_.pages_[k] : k \in 1..Len(pools[p].container_.pages_)}
           : p \in {q \in PoolIds : pools[q].live}}

\* C7 as claimed: no page is freed twice, and no page is freed while a live
\* Arena lists it.
C7_ReleasedOnce ==
    /\ \A id \in 1..Len(freed) : freed[id] <= 1
    /\ \A id \in 1..Len(freed) : freed[id] >= 1 => id \notin Listed

(***************************************************************************)
(* The swap model: two Arenas, constructed with page sizes of their own,   *)
(* are asked for bytes and swapped.                                        *)
(***************************************************************************)

\* The most pages the heap of the swap model hands out.
MaxSwapPages == 2

\* The page sizes the two Arenas are constructed with.
SwapPageSizes == {4, 8}

\* The byte counts asked for; none is 0 and no sum wraps.
SwapSizes == {1, 3, 5}

SwapFrame == UNCHANGED <<poolvars, arenavars, lifevars, symvars>>

InitSwap ==
    /\ arenas \in [{1, 2} -> {Arena(ps) : ps \in SwapPageSizes}]
    /\ capsW = <<>>
    /\ lastW = [op |-> "none", swapped |-> FALSE]
    /\ PoolAtRest /\ ArenaAtRest /\ LifeAtRest /\ SymAtRest

\* arenas[i].allocate(n).  The range returned lies in a page the Arena owns
\* if the page is in its list and the n bytes end within its capacity.
AllocateIn(i, n) ==
    LET al    == allocate(arenas[i], n, Len(capsW) + 1)
        heap1 == IF al.fresh THEN Append(capsW, al.cap) ELSE capsW
        owned == {al.arena.pages_[k] : k \in 1..Len(al.arena.pages_)}
        note(outcome) ==
            [op |-> "allocate", swapped |-> lastW.swapped, who |-> i, n |-> n,
             outcome |-> outcome, result |-> al.result,
             inside |-> /\ al.result.page \in owned
                        /\ al.result.off + n <= heap1[al.result.page]]
    IN  /\ lastW.op # "fault"
        /\ SwapFrame
        /\ \/ \* a page is created
              /\ al.fresh /\ Len(capsW) < MaxSwapPages
              /\ arenas' = [arenas EXCEPT ![i] = al.arena]
              /\ capsW' = heap1
              /\ lastW' = note("ok")
           \/ \* the current page serves the request
              /\ ~al.fresh /\ arenas[i].pages_ # <<>>
              /\ arenas' = [arenas EXCEPT ![i] = al.arena]
              /\ capsW' = heap1
              /\ lastW' = note("ok")
           \/ \* pages_.back() of an empty vector: a stray pointer comes back
              /\ ~al.fresh /\ arenas[i].pages_ = <<>>
              /\ arenas' = [arenas EXCEPT ![i] = al.arena]
              /\ capsW' = heap1
              /\ lastW' = [op |-> "allocate", swapped |-> lastW.swapped, who |-> i,
                           n |-> n, outcome |-> "stray", result |-> al.result,
                           inside |-> FALSE]
           \/ \* pages_.back() of an empty vector: the read faults
              /\ ~al.fresh /\ arenas[i].pages_ = <<>>
              /\ lastW' = [op |-> "fault", swapped |-> lastW.swapped]
              /\ UNCHANGED <<arenas, capsW>>

\* swap(a1, a2)
Swap ==
    LET s == swap(arenas[1], arenas[2])
    IN  /\ lastW.op # "fault"
        /\ arenas' = [arenas EXCEPT ![1] = s[1], ![2] = s[2]]
        /\ lastW' = [op |-> "swap", swapped |-> TRUE]
        /\ UNCHANGED capsW
        /\ SwapFrame

NextSwap ==
    \/ \E i \in {1, 2}, n \in SwapSizes : AllocateIn(i, n)
    \/ Swap

SpecSwap == InitSwap /\ [][NextSwap]_vars

\* C18 as claimed: once swap has been called, every range a call of allocate
\* on either Arena returns lies, with all its bytes, within the capacity of a
\* page in the list of that Arena.
C18_InOwnedPageAfterSwap ==
    lastW.op = "allocate" /\ lastW.swapped => lastW.inside

(***************************************************************************)
(* The Symbol model: a SymPool hands out Symbols, and a client compares    *)
(* them with each other and with chars and iterates over them.             *)
(***************************************************************************)

\* The contents sym is asked for: "", "b", "ab", "bc", and "xyz" with a first
\* byte above 127.
SymContents == {<<>>, <<98>>, <<97, 98>>, <<98, 99>>, <<200, 121, 122>>}

\* The chars a Symbol is compared with, as the bytes they hold.
Chars == {97, 98, 99, 200}

\* The Symbols the client holds for content s: those sym returned, and Sym()
\* for the empty content.
SymsOf(s) == IF s = <<>> THEN ret[s] \cup {EmptySym} ELSE ret[s]

SymFrame == UNCHANGED <<arenavars, lifevars, swapvars>>

InitSym ==
    /\ strings_ = Arena(Default_Page_Size)
    /\ pool_ = {}
    /\ mem = <<>>
    /\ recs = {}
    /\ ret = [c \in SymContents |-> {}]
    /\ last = [op |-> "none"]
    /\ obs = [op |-> "none"]
    /\ signedChar \in BOOLEAN
    /\ ArenaAtRest /\ LifeAtRest /\ SwapAtRest

\* auto y = pool.sym(s); the client of this model asks for a content once
\* (the pool model asks again).
Intern(s) ==
    LET r == sym(strings_, pool_, mem, s)
    IN  /\ Room(s)
        /\ ret[s] = {}
        /\ strings_' = r.strings
        /\ pool_' = r.pool
        /\ mem' = r.mem
        /\ ret' = [ret EXCEPT ![s] = @ \cup {r.sym}]
        /\ obs' = [op |-> "sym"]
        /\ UNCHANGED <<recs, last, signedChar>>
        /\ SymFrame

\* y1 <=> y2, for Symbols of contents a and b.
Compare(a, b) ==
    \E y1 \in SymsOf(a), y2 \in SymsOf(b) :
        /\ obs' = [op |-> "cmp", a |-> a, b |-> b, result |-> Sym_cmp(mem, y1, y2)]
        /\ UNCHANGED <<poolvars, signedChar>>
        /\ SymFrame

\* y <=> c, y == c, y != c, for a Symbol of content a.
CompareChar(a, c) ==
    \E y \in SymsOf(a) :
        /\ obs' = [op |-> "cmp_char", a |-> a, c |-> c,
                   result |-> Sym_cmp_char(mem, y, c, signedChar),
                   eq |-> Sym_eq_char(mem, y, c, signedChar),
                   ne |-> Sym_ne_char(mem, y, c, signedChar)]
        /\ UNCHANGED <<poolvars, signedChar>>
        /\ SymFrame

\* The loop from y.rbegin() to y.rend(), y.front() and y.back(), for a Symbol
\* of content a; front and back are called on a Symbol that is not empty.
Iterate(a) ==
    \E y \in SymsOf(a) :
        /\ obs' = [op |-> "iterate", a |-> a,
                   reversed |-> Sym_reversed(mem, y),
                   ends |-> IF Sym_size(mem, y) > 0
                            THEN <<Sym_front(mem, y), Sym_back(mem, y)>>
                            ELSE <<>>]
        /\ UNCHANGED <<poolvars, signedChar>>
        /\ SymFrame

NextSym ==
    \/ \E s \in SymContents : Intern(s)
    \/ \E a \in SymContents, b \in SymContents : Compare(a, b)
    \/ \E a \in SymContents, c \in Chars : CompareChar(a, c)
    \/ \E a \in SymContents : Iterate(a)

SpecSym == InitSym /\ [][NextSym]_vars

(***************************************************************************)
(* Properties of the Symbol model.                                         *)
(***************************************************************************)

\* Byte string a comes before byte string b in the lexicographic order: at
\* the first position where they differ a has the smaller byte, or a is a
\* proper prefix of b.
LexLess(a, b) ==
    \E k \in 0..(Len(b) - 1) :
        /\ k <= Len(a)
        /\ SubSeq(a, 1, k) = SubSeq(b, 1, k)
        /\ (k = Len(a) \/ a[k + 1] < b[k + 1])

\* -1, 0 or 1 as a comes before, is, or comes after b.
LexOrder(a, b) == IF LexLess(a, b) THEN -1 ELSE IF a = b THEN 0 ELSE 1

\* C12: y1 <=> y2 of two Symbols is the lexicographic order of the contents
\* they were returned for, and the empty Symbol is less than every Symbol
\* that is not empty.
C12_LexicographicOrder ==
    obs.op = "cmp" =>
        /\ obs.result = LexOrder(obs.a, obs.b)
        /\ obs.a = <<>> /\ obs.b # <<>> => obs.result = -1

\* The Symbol of "ab" was compared with the Symbol of "b" and found less.
C12_Witness ==
    obs.op = "cmp" /\ obs.a = <<97, 98>> /\ obs.b = <<98>> /\ obs.result = -1

\* C15 as claimed: y <=> c is the lexicographic order of the content of y
\* and the one-char string of c, and y == c, y != c follow it.
C15_CharAsString ==
    obs.op = "cmp_char" =>
        /\ obs.result = LexOrder(obs.a, <<obs.c>>)
        /\ obs.eq <=> obs.a = <<obs.c>>
        /\ obs.ne <=> obs.a # <<obs.c>>

\* The bytes of s, last to first.
Reversed(s) == [i \in 1..Len(s) |-> s[Len(s) + 1 - i]]

\* C16: the loop from rbegin() to rend() over a Symbol yields the bytes of
\* its content last to first, and for a Symbol that is not empty front() is
\* the first byte and back() the last.
C16_ReverseIteration ==
    obs.op = "iterate" =>
        /\ obs.reversed = Reversed(obs.a)
        /\ obs.a # <<>> => obs.ends = <<obs.a[1], obs.a[Len(obs.a)]>>

\* The Symbol of three bytes was iterated last to first, behind other records
\* of its page.
C16_Witness ==
    /\ obs.op = "iterate" /\ obs.a = <<200, 121, 122>>
    /\ obs.reversed = <<122, 121, 200>>
    /\ \E y \in ret[obs.a] : y.str_.off > 0

====
